---- MODULE Spec2Model ----
(***************************************************************************)
(* A model of tegra_swizzle (C++ port): the block linear address           *)
(* arithmetic, the GOB copy primitives, the mip transform swizzle_inner,   *)
(* the single-mip entry points swizzle_block_linear and                    *)
(* deswizzle_block_linear, and the surface driver swizzle_surface and      *)
(* deswizzle_surface with its sizing functions.                            *)
(*                                                                         *)
(* Buffers (std::vector<unsigned char>) are sequences of bytes; the byte   *)
(* at C++ index i is element i + 1 of the sequence.                        *)
(***************************************************************************)
EXTENDS Integers, Sequences, FiniteSets, TLC

(***************************************************************************)
(* lib.h                                                                   *)
(***************************************************************************)
GOB_WIDTH_IN_BYTES == 64

GOB_HEIGHT_IN_BYTES == 8

GOB_SIZE_IN_BYTES == GOB_WIDTH_IN_BYTES * GOB_HEIGHT_IN_BYTES

\* enum class BlockHeight: the six valid values.
BlockHeight == {1, 2, 4, 8, 16, 32}

Max(a, b) == IF a >= b THEN a ELSE b

\* Bitwise and of two naturals (the & of gob_address_z).
RECURSIVE BitAnd(_, _)
BitAnd(a, b) ==
    IF a = 0 \/ b = 0 THEN 0
    ELSE (a % 2) * (b % 2) + 2 * BitAnd(a \div 2, b \div 2)

\* x >> n on size_t.
RECURSIVE ShiftRight(_, _)
ShiftRight(x, n) == IF n = 0 THEN x ELSE ShiftRight(x \div 2, n - 1)

div_round_up(x, d) == (x + d - 1) \div d

round_up(x, n) == ((x + n - 1) \div n) * n

width_in_gobs(width, bytes_per_pixel) ==
    div_round_up(width * bytes_per_pixel, GOB_WIDTH_IN_BYTES)

\* height_in_blocks that counts GOBs, not blocks of block_height GOBs.
height_in_blocks_of_one_gob(height, block_height) ==
    div_round_up(height, GOB_HEIGHT_IN_BYTES)

height_in_blocks(height, block_height) ==
    div_round_up(height, block_height * GOB_HEIGHT_IN_BYTES)

(***************************************************************************)
(* blockdepth.h                                                            *)
(***************************************************************************)
\* block_depth that compares the depth itself, not the depth and a half.
block_depth_of_depth(depth) ==
    IF depth >= 16 THEN 16
    ELSE IF depth >= 8 THEN 8
    ELSE IF depth >= 4 THEN 4
    ELSE IF depth >= 2 THEN 2
    ELSE 1

block_depth(depth) ==
    LET depth_and_half == depth + (depth \div 2)
    IN  IF depth_and_half >= 16 THEN 16
        ELSE IF depth_and_half >= 8 THEN 8
        ELSE IF depth_and_half >= 4 THEN 4
        ELSE IF depth_and_half >= 2 THEN 2
        ELSE 1

RECURSIVE mip_block_depth(_, _)
mip_block_depth(mip_depth, gob_depth) ==
    IF mip_depth <= gob_depth \div 2 /\ gob_depth > 1
    THEN mip_block_depth(mip_depth, gob_depth \div 2)
    ELSE gob_depth

(***************************************************************************)
(* blockheight.h                                                           *)
(***************************************************************************)
\* block_height_mip0 with one more step at the top of its ladder.
block_height_mip0_up_to_32(height) ==
    LET height_and_half == height + (height \div 2)
    IN  IF height_and_half >= 256 THEN 32
        ELSE IF height_and_half >= 128 THEN 16
        ELSE IF height_and_half >= 64 THEN 8
        ELSE IF height_and_half >= 32 THEN 4
        ELSE IF height_and_half >= 16 THEN 2
        ELSE 1

block_height_mip0(height) ==
    LET height_and_half == height + (height \div 2)
    IN  IF height_and_half >= 128 THEN 16
        ELSE IF height_and_half >= 64 THEN 8
        ELSE IF height_and_half >= 32 THEN 4
        ELSE IF height_and_half >= 16 THEN 2
        ELSE 1

\* mip_block_height whose loop tests `<` where the code tests `<=`.
RECURSIVE mip_block_height_below(_, _)
mip_block_height_below(mip_height, block_height) ==
    IF mip_height < (block_height \div 2) * 8 /\ block_height > 1
    THEN mip_block_height_below(mip_height, block_height \div 2)
    ELSE block_height

RECURSIVE mip_block_height(_, _)
mip_block_height(mip_height, block_height) ==
    IF mip_height <= (block_height \div 2) * 8 /\ block_height > 1
    THEN mip_block_height(mip_height, block_height \div 2)
    ELSE block_height

(***************************************************************************)
(* arrays.h                                                                *)
(***************************************************************************)
\* The loop `while (height <= (gob_height / 2) * 8 && gob_height > 1)`.
RECURSIVE align_gob_height(_, _)
align_gob_height(height, gob_height) ==
    IF height <= (gob_height \div 2) * 8 /\ gob_height > 1
    THEN align_gob_height(height, gob_height \div 2)
    ELSE gob_height

\* The loop `while (depth <= (gob_depth / 2) && gob_depth > 1)`.
RECURSIVE align_gob_depth(_, _)
align_gob_depth(depth, gob_depth) ==
    IF depth <= (gob_depth \div 2) /\ gob_depth > 1
    THEN align_gob_depth(depth, gob_depth \div 2)
    ELSE gob_depth

\* gob_blocks_in_tile_x is the constant 1, so only the first branch runs.
align_layer_size(layer_size, height, depth, block_height, depth_in_gobs) ==
    LET gob_height == align_gob_height(height, block_height)
        gob_depth == align_gob_depth(depth, depth_in_gobs)
        block_of_gobs_size == gob_height * gob_depth * GOB_SIZE_IN_BYTES
        size_in_block_of_gobs == layer_size \div block_of_gobs_size
    IN  IF layer_size # size_in_block_of_gobs * block_of_gobs_size
        THEN (size_in_block_of_gobs + 1) * block_of_gobs_size
        ELSE layer_size

(***************************************************************************)
(* swizzle.h: address arithmetic and sizes                                 *)
(***************************************************************************)
slice_size(block_height, bd, w_in_gobs, height) ==
    LET rob_size == GOB_SIZE_IN_BYTES * block_height * bd * w_in_gobs
    IN  div_round_up(height, block_height * GOB_HEIGHT_IN_BYTES) * rob_size

\* gob_address_z that starts a group of slices at every slice.
gob_address_z_of_every_slice(z, block_height, bd, slice) ==
    (z * slice) + (BitAnd(z, bd - 1) * GOB_SIZE_IN_BYTES * block_height)

gob_address_z(z, block_height, bd, slice) ==
    ((z \div bd) * slice)
        + (BitAnd(z, bd - 1) * GOB_SIZE_IN_BYTES * block_height)

\* gob_address_y without the GOB's row inside its block.
gob_address_y_of_blocks(y, block_height_in_bytes, block_size_in_bytes, image_width_in_gobs) ==
    LET block_y == y \div block_height_in_bytes
    IN  block_y * block_size_in_bytes * image_width_in_gobs

gob_address_y(y, block_height_in_bytes, block_size_in_bytes, image_width_in_gobs) ==
    LET block_y == y \div block_height_in_bytes
        block_inner_row == (y % block_height_in_bytes) \div GOB_HEIGHT_IN_BYTES
    IN  block_y * block_size_in_bytes * image_width_in_gobs
            + block_inner_row * GOB_SIZE_IN_BYTES

gob_address_x(x, block_size_in_bytes) ==
    LET block_x == x \div GOB_WIDTH_IN_BYTES
    IN  block_x * block_size_in_bytes

\* gob_offset with the factors of its second and third terms exchanged.
gob_offset_exchanged(x, y) ==
    ((x % 64) \div 32) * 256 + ((y % 8) \div 2) * 32
        + ((x % 32) \div 16) * 64 + (y % 2) * 16 + (x % 16)

gob_offset(x, y) ==
    ((x % 64) \div 32) * 256 + ((y % 8) \div 2) * 64
        + ((x % 32) \div 16) * 32 + (y % 2) * 16 + (x % 16)

\* swizzled_mip_size that counts the GOBs of a row of pixels, not of bytes.
swizzled_mip_size_of_pixels(width, height, depth, block_height, bytes_per_pixel) ==
    LET w_in_gobs == width_in_gobs(width, 1)
        h_in_blocks == height_in_blocks(height, block_height)
        height_in_gobs == h_in_blocks * block_height
        depth_in_gobs == round_up(depth, block_depth(depth))
        num_gobs == w_in_gobs * height_in_gobs * depth_in_gobs
    IN  num_gobs * GOB_SIZE_IN_BYTES

swizzled_mip_size(width, height, depth, block_height, bytes_per_pixel) ==
    LET w_in_gobs == width_in_gobs(width, bytes_per_pixel)
        h_in_blocks == height_in_blocks(height, block_height)
        height_in_gobs == h_in_blocks * block_height
        depth_in_gobs == round_up(depth, block_depth(depth))
        num_gobs == w_in_gobs * height_in_gobs * depth_in_gobs
    IN  num_gobs * GOB_SIZE_IN_BYTES

deswizzled_mip_size(width, height, depth, bytes_per_pixel) ==
    width * height * depth * bytes_per_pixel

(***************************************************************************)
(* surface.h: the sizing functions                                         *)
(***************************************************************************)
\* std::optional<BlockHeight>
nullopt == [has_value |-> FALSE, value |-> 1]

Some(v) == [has_value |-> TRUE, value |-> v]

value_or(opt, default) == IF opt.has_value THEN opt.value ELSE default

\* std::max(div_round_up(dim >> mip, block), (size_t)1)
mip_dimension(dim, mip, block) == Max(div_round_up(ShiftRight(dim, mip), block), 1)

\* __block_height_mip0 of swizzled_surface_size.
size_block_height_mip0(d) ==
    IF d.depth = 1
    THEN value_or(d.block_height_mip0,
                  block_height_mip0(div_round_up(d.height, d.block_dim.height)))
    ELSE 1

\* The mip loop of swizzled_surface_size: mip_size after `count` iterations.
RECURSIVE swizzled_mips_size(_, _, _)
swizzled_mips_size(d, bh_mip0, count) ==
    IF count = 0 THEN 0
    ELSE LET mip == count - 1
             mip_width == mip_dimension(d.width, mip, d.block_dim.width)
             mip_height == mip_dimension(d.height, mip, d.block_dim.height)
             mip_depth == mip_dimension(d.depth, mip, d.block_dim.depth)
             _mip_block_height == mip_block_height(mip_height, bh_mip0)
         IN  swizzled_mips_size(d, bh_mip0, mip)
                 + swizzled_mip_size(mip_width, mip_height, mip_depth,
                                     _mip_block_height, d.bytes_per_pixel)

swizzled_surface_size(d) ==
    LET __block_height_mip0 == size_block_height_mip0(d)
        mip_size == swizzled_mips_size(d, __block_height_mip0, d.mipmap_count)
    IN  IF d.layer_count > 1
        THEN align_layer_size(mip_size, d.height, d.depth, __block_height_mip0, 1)
                 * d.layer_count
        ELSE mip_size

\* The mip loop of deswizzled_surface_size: layer_size after `count` iterations.
RECURSIVE deswizzled_mips_size(_, _)
deswizzled_mips_size(d, count) ==
    IF count = 0 THEN 0
    ELSE LET mip == count - 1
             mip_width == mip_dimension(d.width, mip, d.block_dim.width)
             mip_height == mip_dimension(d.height, mip, d.block_dim.height)
             mip_depth == mip_dimension(d.depth, mip, d.block_dim.depth)
         IN  deswizzled_mips_size(d, mip)
                 + deswizzled_mip_size(mip_width, mip_height, mip_depth,
                                       d.bytes_per_pixel)

deswizzled_surface_size(d) ==
    deswizzled_mips_size(d, d.mipmap_count) * d.layer_count

(***************************************************************************)
(* Buffers                                                                 *)
(***************************************************************************)
\* A vector of n bytes whose byte at index i is F(i).
MkBuf(n, F(_)) == SubSeq([i \in 1..n |-> F(i - 1)], 1, n)

\* buf[i] for a C++ index i inside the vector.
At(buf, i) == buf[i + 1]

InBounds(buf, i) == 0 <= i /\ i < Len(buf)

\* A vector of n bytes filled with 1 instead of 0.
FilledBuf(n) == MkBuf(n, LAMBDA i : 1)

\* std::vector<unsigned char>(n) followed by std::fill(..., 0), and
\* result.resize(n, 0) on an empty vector.
ZeroBuf(n) == MkBuf(n, LAMBDA i : 0)

SetMax(S) == CHOOSE m \in S : \A k \in S : k <= m

(***************************************************************************)
(* The state                                                               *)
(***************************************************************************)
VARIABLES
    op,           \* the entry point that is running
    desc,         \* its arguments other than the source
    pat,          \* which byte pattern the caller's buffer holds
    phase,        \* 1: the first call; 2: the inverse call of a round trip
    source,       \* the source vector
    destination,  \* the destination / result vector (<<>> when none exists)
    pc,           \* where the call is
    err,          \* the exception a throw raised, and the place that threw
    mp,           \* the arguments of the running swizzle_inner
    z0, y0, x0,   \* the loop variables of swizzle_inner
    layer, mip,   \* the loop variables of swizzle_surface_inner
    src_offset,   \* swizzle_surface_inner's src_offset (0 in a single-mip call)
    dst_offset,   \* swizzle_surface_inner's dst_offset (0 in a single-mip call)
    tail_read,    \* history: a byte after the required source size was read
    gobs_done,    \* history: the GOBs processed by this call
    returned      \* what a call of a sizing function returned

vars == <<op, desc, pat, phase, source, destination, pc, err, mp, z0, y0, x0,
          layer, mip, src_offset, dst_offset, tail_read, gobs_done, returned>>

BlockLinearOps == {"swizzle_block_linear", "deswizzle_block_linear"}

SurfaceOps == {"swizzle_surface", "deswizzle_surface"}

\* The template parameter DESWIZZLE of the running call.
DESWIZZLE == op \in {"deswizzle_block_linear", "deswizzle_surface"}

NoError == [kind |-> "none", at |-> "none"]

NotEnoughData(where) == [kind |-> "NotEnoughData", at |-> where]

NoSizes == [swizzled |-> 0, deswizzled |-> 0]

NoMip == [width |-> 0, height |-> 0, depth |-> 0, block_height |-> 1,
          block_depth |-> 1, bytes_per_pixel |-> 1]

\* The least source length an entry point accepts.
RequiredSize(o, d) ==
    CASE o = "swizzle_block_linear" ->
            deswizzled_mip_size(d.width, d.height, d.depth, d.bytes_per_pixel)
      [] o = "deswizzle_block_linear" ->
            swizzled_mip_size(d.width, d.height, d.depth, d.block_height,
                              d.bytes_per_pixel)
      [] o = "swizzle_surface" -> deswizzled_surface_size(d)
      [] o = "deswizzle_surface" -> swizzled_surface_size(d)

InverseOf(o) ==
    CASE o = "swizzle_block_linear" -> "deswizzle_block_linear"
      [] o = "deswizzle_block_linear" -> "swizzle_block_linear"
      [] o = "swizzle_surface" -> "deswizzle_surface"
      [] o = "deswizzle_surface" -> "swizzle_surface"

(***************************************************************************)
(* swizzle.h: the GOB copy primitives.  One GOB is moved by 512 byte       *)
(* writes, numbered 0..511 in the order the code performs them; a write    *)
(* pairs an offset inside the swizzled GOB with a row and a column of the  *)
(* 64x8 linear region.                                                     *)
(***************************************************************************)
\* Row offsets 16 bytes apart, as if a swizzled row were 16 bytes long.
GOB_ROW_OFFSETS_of_16 == <<0, 16, 32, 48, 64, 80, 96, 112>>

GOB_ROW_OFFSETS == <<0, 16, 64, 80, 128, 144, 192, 208>>

\* The four std::copy calls of swizzle_gob_row, in order: linear bytes
\* [first, last) of the row go to the swizzled offset d_first.
swizzle_gob_row == <<[first |-> 48, last |-> 64, d_first |-> 288],
                     [first |-> 32, last |-> 48, d_first |-> 256],
                     [first |-> 16, last |-> 32, d_first |-> 32],
                     [first |-> 0, last |-> 16, d_first |-> 0]>>

\* deswizzle_gob_row with the destinations of its first two copies exchanged.
deswizzle_gob_row_exchanged ==
    <<[first |-> 288, last |-> 304, d_first |-> 32],
      [first |-> 256, last |-> 272, d_first |-> 48],
      [first |-> 32, last |-> 48, d_first |-> 16],
      [first |-> 0, last |-> 16, d_first |-> 0]>>

\* The four std::copy calls of deswizzle_gob_row, in order: swizzled bytes
\* [first, last) go to the linear offset d_first of the row.
deswizzle_gob_row == <<[first |-> 288, last |-> 304, d_first |-> 48],
                       [first |-> 256, last |-> 272, d_first |-> 32],
                       [first |-> 32, last |-> 48, d_first |-> 16],
                       [first |-> 0, last |-> 16, d_first |-> 0]>>

GobWrites == 0..(GOB_SIZE_IN_BYTES - 1)

\* swizzle_deswizzle_gob: write n is the iteration y = n / 64, x = n % 64.
per_byte_write(n) ==
    LET y == n \div GOB_WIDTH_IN_BYTES
        x == n % GOB_WIDTH_IN_BYTES
    IN  [swz |-> gob_offset(x, y), row |-> y, col |-> x, moves |-> TRUE]

\* swizzle_complete_gob: write n is byte j of copy c of row i.
swizzle_complete_gob(n) ==
    LET i == n \div 64
        c == swizzle_gob_row[((n % 64) \div 16) + 1]
        j == n % 16
    IN  [swz |-> GOB_ROW_OFFSETS[i + 1] + c.d_first + j, row |-> i,
         col |-> c.first + j, moves |-> j < c.last - c.first]

\* deswizzle_complete_gob: write n is byte j of copy c of row i.
deswizzle_complete_gob(n) ==
    LET i == n \div 64
        c == deswizzle_gob_row[((n % 64) \div 16) + 1]
        j == n % 16
    IN  [swz |-> GOB_ROW_OFFSETS[i + 1] + c.first + j, row |-> i,
         col |-> c.d_first + j, moves |-> j < c.last - c.first]

\* The three tables of writes, computed once.
PerByteWrites == MkBuf(GOB_SIZE_IN_BYTES, per_byte_write)

SwizzleCompleteWrites == MkBuf(GOB_SIZE_IN_BYTES, swizzle_complete_gob)

DeswizzleCompleteWrites == MkBuf(GOB_SIZE_IN_BYTES, deswizzle_complete_gob)

\* For every offset k of the swizzled GOB, the writes of a table that pair k.
BySwz(writes) ==
    MkBuf(GOB_SIZE_IN_BYTES, LAMBDA k : {n \in GobWrites : At(writes, n).swz = k})

\* For every cell row * 64 + col of the linear GOB, the writes that pair it.
ByCell(writes) ==
    MkBuf(GOB_SIZE_IN_BYTES,
          LAMBDA rc : {n \in GobWrites :
                          At(writes, n).row * GOB_WIDTH_IN_BYTES + At(writes, n).col = rc})

PerByteBySwz == BySwz(PerByteWrites)

PerByteByCell == ByCell(PerByteWrites)

SwizzleCompleteBySwz == BySwz(SwizzleCompleteWrites)

DeswizzleCompleteByCell == ByCell(DeswizzleCompleteWrites)

(***************************************************************************)
(* swizzle.h: swizzle_inner.  mp holds its arguments; z0, y0, x0 are its   *)
(* loop variables; source and destination are its vectors, which the       *)
(* surface driver passes as the windows starting at src_offset and         *)
(* dst_offset (swizzle_mipmap copies both windows and copies the           *)
(* destination window back, so an index i of part_of_source / part_of_dst  *)
(* is the index src_offset + i / dst_offset + i of source / dst).          *)
(***************************************************************************)
row_size_in_bytes == mp.width * mp.bytes_per_pixel

_width_in_gobs == width_in_gobs(mp.width, mp.bytes_per_pixel)

_slice_size == slice_size(mp.block_height, mp.block_depth, _width_in_gobs, mp.height)

block_size_in_bytes == GOB_SIZE_IN_BYTES * 1 * mp.block_height * mp.block_depth

block_height_in_bytes == GOB_HEIGHT_IN_BYTES * mp.block_height

gob_address ==
    LET offset_z == gob_address_z(z0, mp.block_height, mp.block_depth, _slice_size)
        offset_y == gob_address_y(y0, block_height_in_bytes, block_size_in_bytes,
                                  _width_in_gobs)
        offset_x == gob_address_x(x0, block_size_in_bytes)
    IN  offset_z + offset_y + offset_x

\* The test with `<=` for both `<`: true also for a whole GOB at the edge.
is_complete_gob_up_to_the_edge ==
    /\ x0 + GOB_WIDTH_IN_BYTES <= mp.width * mp.bytes_per_pixel
    /\ y0 + GOB_HEIGHT_IN_BYTES <= mp.height

\* The test that picks the optimized copy of a whole GOB.
is_complete_gob ==
    /\ x0 + GOB_WIDTH_IN_BYTES < mp.width * mp.bytes_per_pixel
    /\ y0 + GOB_HEIGHT_IN_BYTES < mp.height

\* linear_offset of the complete branch without its slice term.
complete_linear_offset_of_first_slice ==
    (y0 * mp.width * mp.bytes_per_pixel) + x0

\* linear_offset of the complete branch.
complete_linear_offset ==
    (z0 * mp.width * mp.height * mp.bytes_per_pixel)
        + (y0 * mp.width * mp.bytes_per_pixel)
        + x0

\* linear_offset of swizzle_deswizzle_gob at its iteration (x, y).
per_byte_linear_offset(x, y) ==
    (z0 * mp.width * mp.height * mp.bytes_per_pixel)
        + ((y0 + y) * mp.width * mp.bytes_per_pixel)
        + x0
        + x

\* The if of swizzle_deswizzle_gob without its test of the row.
per_byte_guard_of_columns(x, y) ==
    x0 + x < mp.width * mp.bytes_per_pixel

\* The if of swizzle_deswizzle_gob.
per_byte_guard(x, y) ==
    y0 + y < mp.height /\ x0 + x < mp.width * mp.bytes_per_pixel

\* The writes of the GOB at (x0, y0, z0).
GobTable ==
    IF is_complete_gob
    THEN (IF DESWIZZLE THEN DeswizzleCompleteWrites ELSE SwizzleCompleteWrites)
    ELSE PerByteWrites

\* What the loop body computes once for the GOB.
ThisGob ==
    [complete |-> is_complete_gob, table |-> GobTable, address |-> gob_address,
     linear_offset |-> complete_linear_offset, deswizzle |-> DESWIZZLE]

Moves(g, n) ==
    LET w == At(g.table, n)
    IN  w.moves /\ (g.complete \/ per_byte_guard(w.col, w.row))

SwizzledIndex(g, n) == g.address + At(g.table, n).swz

LinearIndex(g, n) ==
    LET w == At(g.table, n)
    IN  IF g.complete
        THEN g.linear_offset + row_size_in_bytes * w.row + w.col
        ELSE per_byte_linear_offset(w.col, w.row)

\* The index of destination that write n assigns, and the index of source
\* it reads ("swap the addresses for swizzling vs deswizzling").
WriteIndex(g, n) ==
    dst_offset + (IF g.deswizzle THEN LinearIndex(g, n) ELSE SwizzledIndex(g, n))

ReadIndex(g, n) ==
    src_offset + (IF g.deswizzle THEN SwizzledIndex(g, n) ELSE LinearIndex(g, n))

\* The 512 writes of the GOB with their indices.
GobMoves(g) ==
    MkBuf(GOB_SIZE_IN_BYTES,
          LAMBDA n : [moves |-> Moves(g, n), write |-> WriteIndex(g, n),
                      read |-> ReadIndex(g, n)])

\* The writes of the GOB that may assign destination index t, looked up by
\* the offset of t inside the GOB (an index for evaluation; WritersOf falls
\* back to all 512 writes when the index misses a write).
Candidates(g, t) ==
    IF g.deswizzle
    THEN LET r == t - dst_offset - g.linear_offset
             cells == IF g.complete THEN DeswizzleCompleteByCell ELSE PerByteByCell
         IN  IF /\ r >= 0
                /\ r \div row_size_in_bytes < GOB_HEIGHT_IN_BYTES
                /\ r % row_size_in_bytes < GOB_WIDTH_IN_BYTES
             THEN At(cells, (r \div row_size_in_bytes) * GOB_WIDTH_IN_BYTES
                                + (r % row_size_in_bytes))
             ELSE {}
    ELSE LET k == t - dst_offset - g.address
             offsets == IF g.complete THEN SwizzleCompleteBySwz ELSE PerByteBySwz
         IN  IF 0 <= k /\ k < GOB_SIZE_IN_BYTES THEN At(offsets, k) ELSE {}

IndexComplete(g, m) ==
    \A n \in GobWrites : At(m, n).moves => n \in Candidates(g, At(m, n).write)

WritersOf(g, m, t, indexed) ==
    {n \in (IF indexed THEN Candidates(g, t) ELSE GobWrites) :
        At(m, n).moves /\ At(m, n).write = t}

\* The indices of destination the GOB may assign when the index is complete:
\* the 512 bytes of the swizzled GOB, or the 8 rows of the linear region.
WindowFirst(g) ==
    dst_offset + (IF g.deswizzle THEN g.linear_offset ELSE g.address)

WindowLast(g) ==
    WindowFirst(g)
        + (IF g.deswizzle
           THEN (GOB_HEIGHT_IN_BYTES - 1) * row_size_in_bytes + GOB_WIDTH_IN_BYTES - 1
           ELSE GOB_SIZE_IN_BYTES - 1)

\* destination after the GOB: every index holds the byte of its last write.
GobResult(g, m) ==
    LET indexed == IndexComplete(g, m)
        lo == IF indexed THEN Max(0, WindowFirst(g)) ELSE 0
        hi == IF indexed /\ WindowLast(g) < Len(destination)
              THEN WindowLast(g) ELSE Len(destination) - 1
        window == [t \in lo..hi |->
                      LET W == WritersOf(g, m, t, indexed)
                      IN  IF W = {} THEN At(destination, t)
                          ELSE At(source, At(m, SetMax(W)).read)]
    IN  SubSeq(destination, 1, lo)
            \o SubSeq([i \in 1..(hi - lo + 1) |-> window[lo + i - 1]], 1, hi - lo + 1)
            \o SubSeq(destination, hi + 2, Len(destination))

\* Some access of the GOB falls outside its vector: undefined behaviour.
OutOfBounds(m) ==
    \E n \in GobWrites :
        /\ At(m, n).moves
        /\ \/ ~InBounds(destination, At(m, n).write)
           \/ ~InBounds(source, At(m, n).read)

\* The GOB reads a byte of source at or after index `required`.
ReadsPast(m, required) ==
    \E n \in GobWrites : At(m, n).moves /\ At(m, n).read >= required

\* The three for statements of swizzle_inner, after one body.
NextGob ==
    IF x0 + GOB_WIDTH_IN_BYTES < mp.width * mp.bytes_per_pixel
    THEN /\ x0' = x0 + GOB_WIDTH_IN_BYTES
         /\ UNCHANGED <<y0, z0>>
         /\ pc' = "gob"
    ELSE IF y0 + GOB_HEIGHT_IN_BYTES < mp.height
    THEN /\ x0' = 0
         /\ y0' = y0 + GOB_HEIGHT_IN_BYTES
         /\ UNCHANGED z0
         /\ pc' = "gob"
    ELSE IF z0 + 1 < mp.depth
    THEN /\ x0' = 0
         /\ y0' = 0
         /\ z0' = z0 + 1
         /\ pc' = "gob"
    ELSE /\ x0' = 0
         /\ y0' = 0
         /\ z0' = 0
         /\ pc' = "inner_done"

\* One iteration of the innermost loop body.
GobBody ==
    LET g == ThisGob
        m == GobMoves(g)
    IN  IF OutOfBounds(m)
        THEN /\ pc' = "undefined"
             /\ UNCHANGED <<destination, tail_read, gobs_done, x0, y0, z0>>
        ELSE /\ destination' = GobResult(g, m)
             /\ tail_read' = (tail_read \/ ReadsPast(m, RequiredSize(op, desc)))
             /\ gobs_done' = gobs_done + 1
             /\ NextGob

\* The branch to swizzle_complete_gob / deswizzle_complete_gob.
CompleteGob ==
    /\ pc = "gob"
    /\ is_complete_gob
    /\ GobBody
    /\ UNCHANGED <<returned, op, desc, pat, phase, source, err, mp, layer, mip,
                   src_offset, dst_offset>>

\* The branch to swizzle_deswizzle_gob.
PartialGob ==
    /\ pc = "gob"
    /\ ~is_complete_gob
    /\ GobBody
    /\ UNCHANGED <<returned, op, desc, pat, phase, source, err, mp, layer, mip,
                   src_offset, dst_offset>>

(***************************************************************************)
(* swizzle.h: swizzle_block_linear and deswizzle_block_linear              *)
(***************************************************************************)
\* The arguments swizzle_inner gets from the single-mip entry points.
BlockLinearMip ==
    [width |-> desc.width, height |-> desc.height, depth |-> desc.depth,
     block_height |-> desc.block_height, block_depth |-> block_depth(desc.depth),
     bytes_per_pixel |-> desc.bytes_per_pixel]

\* expected_size of the two entry points, taken for the other direction.
block_linear_expected_size_inverted ==
    IF DESWIZZLE
    THEN deswizzled_mip_size(desc.width, desc.height, desc.depth, desc.bytes_per_pixel)
    ELSE swizzled_mip_size(desc.width, desc.height, desc.depth, desc.block_height,
                           desc.bytes_per_pixel)

\* expected_size of swizzle_block_linear / deswizzle_block_linear.
block_linear_expected_size ==
    IF DESWIZZLE
    THEN swizzled_mip_size(desc.width, desc.height, desc.depth, desc.block_height,
                           desc.bytes_per_pixel)
    ELSE deswizzled_mip_size(desc.width, desc.height, desc.depth, desc.bytes_per_pixel)

\* The first two statements of both entry points: the destination is
\* allocated and filled with zeros before the length of the source is tested.
BlockLinearCall(destination_size) ==
    /\ pc = "call"
    /\ tail_read' = FALSE
    /\ gobs_done' = 0
    /\ destination' = ZeroBuf(destination_size)
    /\ pc' = "check"
    /\ UNCHANGED <<returned, op, desc, pat, phase, source, err, mp, z0, y0, x0, layer,
                   mip, src_offset, dst_offset>>

swizzle_block_linear ==
    /\ op = "swizzle_block_linear"
    /\ BlockLinearCall(swizzled_mip_size(desc.width, desc.height, desc.depth,
                                         desc.block_height, desc.bytes_per_pixel))

deswizzle_block_linear ==
    /\ op = "deswizzle_block_linear"
    /\ BlockLinearCall(deswizzled_mip_size(desc.width, desc.height, desc.depth,
                                           desc.bytes_per_pixel))

\* `if (source.size() < expected_size) throw ...`, and the entry of
\* swizzle_inner when the test passes.
block_linear_check ==
    /\ pc = "check"
    /\ IF Len(source) < block_linear_expected_size
       THEN \* the throw unwinds the zero-filled local destination
            /\ destination' = <<>>
            /\ err' = NotEnoughData(op)
            /\ pc' = "error"
            /\ UNCHANGED mp
       ELSE /\ mp' = BlockLinearMip
            /\ pc' = "gob"
            /\ UNCHANGED <<err, destination>>
    /\ UNCHANGED <<returned, op, desc, pat, phase, source, z0, y0, x0, layer, mip,
                   src_offset, dst_offset, tail_read, gobs_done>>

\* `return destination;`
BlockLinearReturn ==
    /\ pc = "inner_done"
    /\ op \in BlockLinearOps
    /\ pc' = "done"
    /\ UNCHANGED <<returned, op, desc, pat, phase, source, destination, err, mp, z0, y0, x0,
                   layer, mip, src_offset, dst_offset, tail_read, gobs_done>>

(***************************************************************************)
(* surface.h: surface_destination, swizzle_mipmap, swizzle_surface_inner,  *)
(* swizzle_surface and deswizzle_surface                                   *)
(***************************************************************************)
\* A __block_height_mip0 that takes the caller's value at any depth.
inner_block_height_mip0_at_any_depth(d) ==
    value_or(d.block_height_mip0,
             IF d.depth = 1
             THEN block_height_mip0(div_round_up(d.height, d.block_dim.height))
             ELSE 1)

\* __block_height_mip0 of swizzle_surface_inner.
inner_block_height_mip0(d) ==
    IF d.depth = 1
    THEN value_or(d.block_height_mip0,
                  block_height_mip0(div_round_up(d.height, d.block_dim.height)))
    ELSE 1

\* The size of the result taken for the other direction.
surface_size_inverted(d, deswizzle) ==
    IF deswizzle THEN swizzled_surface_size(d) ELSE deswizzled_surface_size(d)

\* surface_destination<DESWIZZLE>: the size of the result and the least size
\* of the source.
surface_size(d, deswizzle) ==
    IF deswizzle THEN deswizzled_surface_size(d) ELSE swizzled_surface_size(d)

expected_size(d, deswizzle) ==
    IF deswizzle THEN swizzled_surface_size(d) ELSE deswizzled_surface_size(d)

\* The call of surface_destination and the entry of swizzle_surface_inner.
SurfaceCall ==
    /\ pc = "call"
    /\ tail_read' = FALSE
    /\ gobs_done' = 0
    /\ IF Len(source) < expected_size(desc, DESWIZZLE)
       THEN /\ err' = NotEnoughData("surface_destination")
            /\ pc' = "error"
            /\ UNCHANGED destination
       ELSE /\ destination' = ZeroBuf(surface_size(desc, DESWIZZLE))
            /\ pc' = "mipmap"
            /\ UNCHANGED err
    /\ src_offset' = 0
    /\ dst_offset' = 0
    /\ layer' = 0
    /\ mip' = 0
    /\ UNCHANGED <<returned, op, desc, pat, phase, source, mp, z0, y0, x0>>

swizzle_surface ==
    /\ op = "swizzle_surface"
    /\ SurfaceCall

deswizzle_surface ==
    /\ op = "deswizzle_surface"
    /\ SurfaceCall

\* The arguments swizzle_surface_inner computes for the mip of this iteration.
SurfaceMip ==
    LET mip_width == mip_dimension(desc.width, mip, desc.block_dim.width)
        mip_height == mip_dimension(desc.height, mip, desc.block_dim.height)
        mip_depth == mip_dimension(desc.depth, mip, desc.block_dim.depth)
        block_depth_mip0 == block_depth(desc.depth)
    IN  [width |-> mip_width, height |-> mip_height, depth |-> mip_depth,
         block_height |-> mip_block_height(mip_height, inner_block_height_mip0(desc)),
         block_depth |-> mip_block_depth(mip_depth, block_depth_mip0),
         bytes_per_pixel |-> desc.bytes_per_pixel]

\* swizzle_mipmap up to its call of swizzle_inner: the two length checks and
\* the windows part_of_source, part_of_dst.
swizzle_mipmap ==
    /\ pc = "mipmap"
    /\ LET m == SurfaceMip
           swizzled_size == swizzled_mip_size(m.width, m.height, m.depth,
                                              m.block_height, m.bytes_per_pixel)
           deswizzled_size == deswizzled_mip_size(m.width, m.height, m.depth,
                                                  m.bytes_per_pixel)
       IN  IF \/ DESWIZZLE /\ Len(source) < src_offset + swizzled_size
              \/ ~DESWIZZLE /\ Len(source) < src_offset + deswizzled_size
           THEN \* the throw unwinds the result of the entry point
                /\ err' = NotEnoughData("swizzle_mipmap")
                /\ pc' = "error"
                /\ destination' = <<>>
                /\ UNCHANGED mp
           ELSE IF dst_offset > Len(destination)
           THEN \* dst.begin() + dst_offset is past the end
                /\ pc' = "undefined"
                /\ UNCHANGED <<err, destination, mp>>
           ELSE /\ mp' = m
                /\ pc' = "gob"
                /\ UNCHANGED <<err, destination>>
    /\ UNCHANGED <<returned, op, desc, pat, phase, source, z0, y0, x0, layer, mip,
                   src_offset, dst_offset, tail_read, gobs_done>>

\* swizzle_mipmap after swizzle_inner ("move to the next section"), and the
\* step of the mip loop.
swizzle_mipmap_end ==
    /\ pc = "inner_done"
    /\ op \in SurfaceOps
    /\ LET swizzled_size == swizzled_mip_size(mp.width, mp.height, mp.depth,
                                              mp.block_height, mp.bytes_per_pixel)
           deswizzled_size == deswizzled_mip_size(mp.width, mp.height, mp.depth,
                                                  mp.bytes_per_pixel)
       IN  IF DESWIZZLE
           THEN /\ src_offset' = src_offset + swizzled_size
                /\ dst_offset' = dst_offset + deswizzled_size
           ELSE /\ src_offset' = src_offset + deswizzled_size
                /\ dst_offset' = dst_offset + swizzled_size
    /\ mip' = mip + 1
    /\ pc' = IF mip + 1 < desc.mipmap_count THEN "mipmap" ELSE "layer_end"
    /\ UNCHANGED <<returned, op, desc, pat, phase, source, destination, err, mp, z0, y0, x0,
                   layer, tail_read, gobs_done>>

\* The end of a layer without the alignment of the offsets.
layer_end_unaligned ==
    /\ pc = "layer_end"
    /\ layer' = layer + 1
    /\ mip' = 0
    /\ pc' = IF layer + 1 < desc.layer_count THEN "mipmap" ELSE "done"
    /\ UNCHANGED <<returned, op, desc, pat, phase, source, destination, err, mp, z0, y0, x0,
                   tail_read, gobs_done, src_offset, dst_offset>>

\* The end of a layer that aligns dst_offset whichever the direction.
layer_end_aligning_dst ==
    /\ pc = "layer_end"
    /\ IF desc.layer_count > 1
       THEN /\ dst_offset' = align_layer_size(dst_offset, desc.height, desc.depth,
                                              inner_block_height_mip0(desc), 1)
            /\ UNCHANGED src_offset
       ELSE UNCHANGED <<src_offset, dst_offset>>
    /\ layer' = layer + 1
    /\ mip' = 0
    /\ pc' = IF layer + 1 < desc.layer_count THEN "mipmap" ELSE "done"
    /\ UNCHANGED <<returned, op, desc, pat, phase, source, destination, err, mp, z0, y0, x0,
                   tail_read, gobs_done>>

\* "Align offsets between array layers", the step of the layer loop, and the
\* return of the result after the last layer.
layer_end ==
    /\ pc = "layer_end"
    /\ IF desc.layer_count > 1
       THEN IF DESWIZZLE
            THEN /\ src_offset' = align_layer_size(src_offset, desc.height, desc.depth,
                                                   inner_block_height_mip0(desc), 1)
                 /\ UNCHANGED dst_offset
            ELSE /\ dst_offset' = align_layer_size(dst_offset, desc.height, desc.depth,
                                                   inner_block_height_mip0(desc), 1)
                 /\ UNCHANGED src_offset
       ELSE UNCHANGED <<src_offset, dst_offset>>
    /\ layer' = layer + 1
    /\ mip' = 0
    /\ pc' = IF layer + 1 < desc.layer_count THEN "mipmap" ELSE "done"
    /\ UNCHANGED <<returned, op, desc, pat, phase, source, destination, err, mp, z0, y0, x0,
                   tail_read, gobs_done>>

(***************************************************************************)
(* The callers: the arguments a call is made with, and the round trip      *)
(* that hands a swizzled result to the inverse entry point.                *)
(***************************************************************************)
MaxDepth == 2

MaxExtra == 1

MaxMipmaps == 2

MaxLayers == 2

Depths == {1, MaxDepth}

MipmapCounts == {1, MaxMipmaps}

LayerCounts == {1, MaxLayers}

\* source length - required length
Extras == {-1, 0, MaxExtra}

\* (width, bytes_per_pixel): rows of 3, 68 and 128 bytes.
RowShapes == {<<3, 1>>, <<17, 4>>, <<32, 4>>}

Heights == {3, 16, 17}

Patterns == {0, 1}

\* Byte i of the caller's data: both patterns together tell any two indices
\* below 251 * 251 apart, and neither holds a zero.
PatternByte(p, i) == IF p = 0 THEN (i % 251) + 1 ELSE ((i \div 251) % 251) + 1

\* A source of len bytes: the caller's data in its first `required` bytes and
\* the byte 255 after them.
SourceBuffer(p, required, len) ==
    MkBuf(len, LAMBDA i : IF i < required THEN PatternByte(p, i) ELSE 255)

Start(o, d, p, extra) ==
    /\ op = o
    /\ desc = d
    /\ pat = p
    /\ phase = 1
    /\ source = SourceBuffer(p, RequiredSize(o, d), RequiredSize(o, d) + extra)
    /\ destination = <<>>
    /\ pc = "call"
    /\ err = NoError
    /\ mp = NoMip
    /\ z0 = 0 /\ y0 = 0 /\ x0 = 0
    /\ layer = 0 /\ mip = 0
    /\ src_offset = 0 /\ dst_offset = 0
    /\ tail_read = FALSE
    /\ gobs_done = 0
    /\ returned = NoSizes

\* The arguments of the single-mip calls; the block heights 16 and 32 are
\* passed with one slice only.
BlockLinearArgs ==
    {a \in {[width |-> s[1], height |-> h, depth |-> d, block_height |-> bh,
             bytes_per_pixel |-> s[2]] :
               s \in RowShapes, h \in Heights, d \in Depths, bh \in BlockHeight} :
        a.block_height > 8 => a.depth = 1}

\* The calls made: (entry point, pattern, source length - required length).
\* A source of exactly the required size reaches the deswizzle entry points
\* as the second call of a round trip; the second pattern is used for round
\* trips.
Calls(swizzle, deswizzle) ==
    {c \in {swizzle, deswizzle} \X Patterns \X Extras :
        /\ c[1] = deswizzle => c[3] # 0
        /\ c[2] # 0 => (c[1] = swizzle /\ c[3] = 0)}

InitBlockLinear ==
    \E c \in Calls("swizzle_block_linear", "deswizzle_block_linear"),
       d \in BlockLinearArgs :
        Start(c[1], d, c[2], c[3])

\* The caller deswizzles what a swizzle of a source of exactly the required
\* size returned, with the same arguments.
RoundTrip ==
    /\ pc = "done"
    /\ phase = 1
    /\ ~DESWIZZLE
    /\ Len(source) = RequiredSize(op, desc)
    /\ op' = InverseOf(op)
    /\ source' = destination
    /\ destination' = <<>>
    /\ phase' = 2
    /\ pc' = "call"
    /\ UNCHANGED <<returned, desc, pat, err, mp, z0, y0, x0, layer, mip, src_offset,
                   dst_offset, tail_read, gobs_done>>

block_dim_uncompressed == [width |-> 1, height |-> 1, depth |-> 1]

block_dim_4x4 == [width |-> 4, height |-> 4, depth |-> 1]

SurfaceRowShapes == {<<3, 1>>, <<17, 4>>}

SurfaceHeights == {9, 16}

OptionalBlockHeights == {nullopt, Some(1), Some(32)}

\* Surfaces of one pixel by one pixel and 10 slices: their second mip is 5
\* slices deep and gets the block depth mip_block_depth(5, block_depth(10)) = 8
\* where block_depth(5) is 4.
DeepSurfaceArgs ==
    {[width |-> 1, height |-> 1, depth |-> 10, block_dim |-> block_dim_uncompressed,
      block_height_mip0 |-> nullopt, bytes_per_pixel |-> 1, mipmap_count |-> mc,
      layer_count |-> lc] : mc \in {MaxMipmaps}, lc \in LayerCounts}

\* The descriptors of the surface calls; a surface deeper than one slice has
\* the narrow rows and is passed no block height or the largest.
SurfaceArgs ==
    {a \in {[width |-> s[1], height |-> h, depth |-> d, block_dim |-> bd,
             block_height_mip0 |-> bh, bytes_per_pixel |-> s[2], mipmap_count |-> mc,
             layer_count |-> lc] :
               s \in SurfaceRowShapes, h \in SurfaceHeights, d \in Depths,
               bd \in {block_dim_uncompressed, block_dim_4x4},
               bh \in OptionalBlockHeights, mc \in MipmapCounts, lc \in LayerCounts} :
        a.depth > 1 =>
            /\ a.block_height_mip0 # Some(1)
            /\ a.width * a.bytes_per_pixel < GOB_WIDTH_IN_BYTES}
        \cup DeepSurfaceArgs

InitSurface ==
    \E c \in Calls("swizzle_surface", "deswizzle_surface"), d \in SurfaceArgs :
        Start(c[1], d, c[2], c[3])

(***************************************************************************)
(* The callers of the sizing functions                                     *)
(***************************************************************************)
MaxSizeWidth == 9

MaxSizeHeight == 17

MaxSizeDepth == 5

MaxSizeMipmaps == 3

MaxSizeLayers == 2

BytesPerPixel == {1, 4, 16}

\* The arguments of the documentation tests of swizzled_mip_size and
\* deswizzled_mip_size, and those of a 64 x 64 mip of 16 bytes per pixel in
\* blocks 4 GOBs high.
DocTestMipSizeArgs ==
    {[width |-> 256, height |-> 256, depth |-> 1, block_height |-> 16,
      bytes_per_pixel |-> 4],
     [width |-> 64, height |-> 64, depth |-> 1, block_height |-> 16,
      bytes_per_pixel |-> 16],
     [width |-> 64, height |-> 64, depth |-> 1, block_height |-> 4,
      bytes_per_pixel |-> 16]}

MipSizeArgs ==
    {[width |-> w, height |-> h, depth |-> d, block_height |-> bh,
      bytes_per_pixel |-> bpp] :
        w \in 1..MaxSizeWidth, h \in 1..MaxSizeHeight, d \in 1..MaxSizeDepth,
        bh \in BlockHeight, bpp \in BytesPerPixel}
        \cup DocTestMipSizeArgs

SurfaceSizeArgs ==
    {[width |-> w, height |-> h, depth |-> d, block_dim |-> bd,
      block_height_mip0 |-> bh, bytes_per_pixel |-> bpp, mipmap_count |-> mc,
      layer_count |-> lc] :
        w \in {1, MaxSizeWidth}, h \in 1..MaxSizeHeight, d \in 1..MaxSizeDepth,
        bd \in {block_dim_uncompressed, block_dim_4x4},
        bh \in {nullopt} \cup {Some(v) : v \in BlockHeight},
        bpp \in BytesPerPixel, mc \in 1..MaxSizeMipmaps, lc \in 1..MaxSizeLayers}

InitSizes ==
    \E o \in {"mip_size", "surface_size"} :
        \E d \in (IF o = "mip_size" THEN MipSizeArgs ELSE SurfaceSizeArgs) :
            /\ op = o
            /\ desc = d
            /\ pat = 0
            /\ phase = 1
            /\ source = <<>>
            /\ destination = <<>>
            /\ pc = "call"
            /\ err = NoError
            /\ mp = NoMip
            /\ z0 = 0 /\ y0 = 0 /\ x0 = 0
            /\ layer = 0 /\ mip = 0
            /\ src_offset = 0 /\ dst_offset = 0
            /\ tail_read = FALSE
            /\ gobs_done = 0
            /\ returned = NoSizes

\* The caller asks swizzled_mip_size and deswizzled_mip_size for one mip.
mip_size ==
    /\ pc = "call"
    /\ op = "mip_size"
    /\ returned' = [swizzled |-> swizzled_mip_size(desc.width, desc.height, desc.depth,
                                                   desc.block_height,
                                                   desc.bytes_per_pixel),
                    deswizzled |-> deswizzled_mip_size(desc.width, desc.height,
                                                       desc.depth, desc.bytes_per_pixel)]
    /\ pc' = "done"
    /\ UNCHANGED <<op, desc, pat, phase, source, destination, err, mp, z0, y0, x0,
                   layer, mip, src_offset, dst_offset, tail_read, gobs_done>>

\* The caller asks swizzled_surface_size and deswizzled_surface_size for one
\* surface.
surface_sizes ==
    /\ pc = "call"
    /\ op = "surface_size"
    /\ returned' = [swizzled |-> swizzled_surface_size(desc),
                    deswizzled |-> deswizzled_surface_size(desc)]
    /\ pc' = "done"
    /\ UNCHANGED <<op, desc, pat, phase, source, destination, err, mp, z0, y0, x0,
                   layer, mip, src_offset, dst_offset, tail_read, gobs_done>>

(***************************************************************************)
(* The callers of the block height and block depth inference               *)
(***************************************************************************)
MaxInferHeight == 300

MaxInferDepth == 24

\* A call of the function o with the arguments d, before it runs.
CallOf(o, d) ==
    /\ op = o
    /\ desc = d
    /\ pat = 0
    /\ phase = 1
    /\ source = <<>>
    /\ destination = <<>>
    /\ pc = "call"
    /\ err = NoError
    /\ mp = NoMip
    /\ z0 = 0 /\ y0 = 0 /\ x0 = 0
    /\ layer = 0 /\ mip = 0
    /\ src_offset = 0 /\ dst_offset = 0
    /\ tail_read = FALSE
    /\ gobs_done = 0
    /\ returned = NoSizes

MipBlockHeightArgs ==
    {[mip_height |-> h, block_height_mip0 |-> b] :
        h \in 1..MaxInferHeight, b \in BlockHeight}

BlockHeightMip0Args == {[height |-> h] : h \in 0..MaxInferHeight}

\* depth is the depth of the surface, mip_depth the depth of one of its mips
\* or of any other mip, and z a slice of that mip.
BlockDepthArgs ==
    {a \in {[depth |-> D, mip_depth |-> m, z |-> z] :
               D \in 1..MaxInferDepth, m \in 1..MaxInferDepth,
               z \in 0..(MaxInferDepth - 1)} :
        a.z < a.mip_depth}

InitInference ==
    \/ \E d \in MipBlockHeightArgs : CallOf("mip_block_height", d)
    \/ \E d \in BlockHeightMip0Args : CallOf("block_height_mip0", d)
    \/ \E d \in BlockDepthArgs : CallOf("block_depth", d)

\* What a function returned, left in `returned` when the call is done.
Return(r) ==
    /\ pc = "call"
    /\ returned' = r
    /\ pc' = "done"
    /\ UNCHANGED <<op, desc, pat, phase, source, destination, err, mp, z0, y0, x0,
                   layer, mip, src_offset, dst_offset, tail_read, gobs_done>>

\* The caller asks for the block height of a mip.
call_mip_block_height ==
    /\ op = "mip_block_height"
    /\ Return([block_height |-> mip_block_height(desc.mip_height,
                                                 desc.block_height_mip0)])

\* The caller asks for the block height of the first mip.
call_block_height_mip0 ==
    /\ op = "block_height_mip0"
    /\ Return([block_height |-> block_height_mip0(desc.height)])

\* The caller infers the block depth of a surface and of one mip, as
\* swizzle_surface_inner does, and asks for the address of the first GOB of
\* slice z of a mip one GOB wide and one GOB high in that block depth, as
\* swizzle_inner does.
call_block_depth ==
    /\ op = "block_depth"
    /\ LET block_depth_mip0 == block_depth(desc.depth)
           _mip_block_depth == mip_block_depth(desc.mip_depth, block_depth_mip0)
           slice == slice_size(1, _mip_block_depth, 1, 1)
       IN  Return([block_depth |-> block_depth_mip0,
                   mip_block_depth |-> _mip_block_depth,
                   slice_size |-> slice,
                   offset_z |-> gob_address_z(desc.z, 1, _mip_block_depth, slice)])

(***************************************************************************)
(* The callers of gob_offset                                               *)
(***************************************************************************)
\* The (x, y) swizzle_deswizzle_gob calls gob_offset with.
GobOffsetArgs ==
    {[x |-> x, y |-> y] :
        x \in 0..(GOB_WIDTH_IN_BYTES - 1), y \in 0..(GOB_HEIGHT_IN_BYTES - 1)}

InitGobOffset == \E d \in GobOffsetArgs : CallOf("gob_offset", d)

call_gob_offset ==
    /\ op = "gob_offset"
    /\ Return([offset |-> gob_offset(desc.x, desc.y)])

Init == InitBlockLinear \/ InitSurface

Next ==
    \/ swizzle_block_linear
    \/ deswizzle_block_linear
    \/ block_linear_check
    \/ BlockLinearReturn
    \/ swizzle_surface
    \/ deswizzle_surface
    \/ swizzle_mipmap
    \/ swizzle_mipmap_end
    \/ layer_end
    \/ CompleteGob
    \/ PartialGob
    \/ RoundTrip

Spec == Init /\ [][Next]_vars

NextSurface ==
    \/ swizzle_surface
    \/ deswizzle_surface
    \/ swizzle_mipmap
    \/ CompleteGob
    \/ PartialGob
    \/ swizzle_mipmap_end
    \/ layer_end
    \/ RoundTrip

SpecSurface == InitSurface /\ [][NextSurface]_vars

NextBlockLinear ==
    \/ swizzle_block_linear
    \/ deswizzle_block_linear
    \/ block_linear_check
    \/ CompleteGob
    \/ PartialGob
    \/ BlockLinearReturn
    \/ RoundTrip

SpecBlockLinear == InitBlockLinear /\ [][NextBlockLinear]_vars

NextSizes ==
    \/ mip_size
    \/ surface_sizes

SpecSizes == InitSizes /\ [][NextSizes]_vars

NextInference ==
    \/ call_mip_block_height
    \/ call_block_height_mip0
    \/ call_block_depth

SpecInference == InitInference /\ [][NextInference]_vars

NextGobOffset == call_gob_offset

SpecGobOffset == InitGobOffset /\ [][NextGobOffset]_vars

NeverUndefined == pc # "undefined"

(***************************************************************************)
(* Properties                                                              *)
(***************************************************************************)
\* The call has ended without a result, or has left defined behaviour.
Failed == pc \in {"error", "undefined"}

\* destination is the caller's data: byte i is byte i of the pattern.
IsCallersData(n) ==
    /\ Len(destination) = n
    /\ \A i \in 0..(n - 1) : At(destination, i) = PatternByte(pat, i)

\* C1: for a single mip, deswizzling with the same width, height, depth,
\* block height and bytes per pixel what swizzle_block_linear made of a buffer
\* of exactly width * height * depth * bytes_per_pixel bytes succeeds and
\* returns that buffer, byte for byte.
C1_BlockLinearRoundTrip ==
    (op \in BlockLinearOps /\ (phase = 2 \/ Len(source) = RequiredSize(op, desc))) =>
        /\ ~Failed
        /\ (phase = 2 /\ pc = "done") =>
               IsCallersData(deswizzled_mip_size(desc.width, desc.height, desc.depth,
                                                 desc.bytes_per_pixel))

\* A finished round trip of two slices of 17 rows of 68 bytes, block height 2:
\* complete GOBs, partial GOBs on both edges, and padding rows.
C1_Witness ==
    /\ op = "deswizzle_block_linear"
    /\ phase = 2
    /\ pc = "done"
    /\ desc.width * desc.bytes_per_pixel = 68
    /\ desc.height = 17
    /\ desc.depth > 1
    /\ desc.block_height = 2
    /\ pat = 1

\* C2: for a surface, deswizzle_surface with the same descriptor applied to
\* what swizzle_surface made of a buffer of exactly deswizzled_surface_size
\* bytes succeeds and returns that buffer, byte for byte.
C2_SurfaceRoundTrip ==
    (op \in SurfaceOps /\ (phase = 2 \/ Len(source) = RequiredSize(op, desc))) =>
        /\ ~Failed
        /\ (phase = 2 /\ pc = "done") => IsCallersData(deswizzled_surface_size(desc))

\* A finished round trip of a surface of two layers of two mips whose block
\* height halves at the second mip.
C2_Witness ==
    /\ op = "deswizzle_surface"
    /\ phase = 2
    /\ pc = "done"
    /\ desc.layer_count > 1
    /\ desc.mipmap_count > 1
    /\ desc.height = 16
    /\ desc.block_dim = block_dim_uncompressed
    /\ desc.block_height_mip0 = nullopt
    /\ desc.width * desc.bytes_per_pixel = 68
    /\ pat = 1

\* The offset the swizzled address mapping gives the byte at column x (in
\* bytes), row y and slice z of a mip m.
SwizzledAddressIn(m, x, y, z) ==
    gob_address_z(z, m.block_height, m.block_depth,
                  slice_size(m.block_height, m.block_depth,
                             width_in_gobs(m.width, m.bytes_per_pixel), m.height))
        + gob_address_y(y, GOB_HEIGHT_IN_BYTES * m.block_height,
                        GOB_SIZE_IN_BYTES * m.block_height * m.block_depth,
                        width_in_gobs(m.width, m.bytes_per_pixel))
        + gob_address_x(x, GOB_SIZE_IN_BYTES * m.block_height * m.block_depth)
        + gob_offset(x % GOB_WIDTH_IN_BYTES, y % GOB_HEIGHT_IN_BYTES)

\* The same for the running mip mp, and the linear offset of that byte.
SwizzledAddress(x, y, z) == SwizzledAddressIn(mp, x, y, z)

LinearAddress(x, y, z) ==
    z * mp.width * mp.height * mp.bytes_per_pixel
        + y * mp.width * mp.bytes_per_pixel
        + x

\* C3: when swizzle_inner has finished a mip, for every byte coordinate
\* (x, y, z) of the mip the swizzle holds the source byte of linear offset
\* z*W*H*bpp + y*W*bpp + x at the swizzled offset gob_address_z +
\* gob_address_y + gob_address_x + gob_offset(x mod 64, y mod 8), and the
\* deswizzle holds the byte of that swizzled offset at that linear offset,
\* whichever of the two copy routines moved the GOB.
C3_AddressMapping ==
    pc = "inner_done" =>
        \A z \in 0..(mp.depth - 1), y \in 0..(mp.height - 1),
           x \in 0..(mp.width * mp.bytes_per_pixel - 1) :
            IF DESWIZZLE
            THEN At(destination, dst_offset + LinearAddress(x, y, z))
                     = At(source, src_offset + SwizzledAddress(x, y, z))
            ELSE At(destination, dst_offset + SwizzledAddress(x, y, z))
                     = At(source, src_offset + LinearAddress(x, y, z))

\* A finished swizzle of a mip with complete GOBs (moved by the row copies)
\* and partial GOBs (moved byte by byte), in blocks 2 GOBs high and 2 deep.
C3_Witness ==
    /\ pc = "inner_done"
    /\ ~DESWIZZLE
    /\ gobs_done > 4
    /\ mp.width * mp.bytes_per_pixel = 68
    /\ mp.height = 17
    /\ mp.block_height = 2
    /\ mp.block_depth = 2

\* The source is shorter than the entry point requires.
SourceTooShort == Len(source) < RequiredSize(op, desc)

\* NotEnoughData is raised exactly for the sources that are too short, by the
\* check made up front and never by the per-mip checks of swizzle_mipmap, with
\* no GOB processed and no destination left.
RaisedUpFront ==
    /\ pc \notin {"call", "check"} => ((err.kind = "NotEnoughData") <=> SourceTooShort)
    /\ (err.kind = "NotEnoughData") <=> (pc = "error")
    /\ pc = "error" =>
           /\ err.at = (IF op \in SurfaceOps THEN "surface_destination" ELSE op)
           /\ gobs_done = 0
           /\ destination = <<>>

\* C4 as stated: NotEnoughData is raised exactly for the sources that are too
\* short, by the up-front check, before any byte of a destination is written.
C4_AsStated ==
    /\ RaisedUpFront
    /\ SourceTooShort => destination = <<>>

\* C4: each entry point fails with NotEnoughData exactly when its source is
\* shorter than the required size; the failure comes from the up-front check,
\* never from a per-mip check, and leaves no output.  swizzle_surface and
\* deswizzle_surface test the length before they allocate; swizzle_block_linear
\* and deswizzle_block_linear allocate and zero-fill their destination first,
\* and on failure that destination holds zeros only and is discarded.
C4_NotEnoughData ==
    /\ RaisedUpFront
    /\ SourceTooShort =>
           \/ destination = <<>>
           \/ /\ op \in BlockLinearOps
              /\ pc = "check"
              /\ \A i \in 0..(Len(destination) - 1) : At(destination, i) = 0

\* deswizzle_block_linear has refused a source one byte short, after it had
\* filled a destination.
C4_Witness ==
    /\ pc = "error"
    /\ op = "deswizzle_block_linear"
    /\ Len(source) = RequiredSize(op, desc) - 1
    /\ err = NotEnoughData("deswizzle_block_linear")
    /\ destination = <<>>
    /\ desc.depth > 1

\* The length of the output of a successful call, by entry point.
OutputSize(o, d) ==
    CASE o = "swizzle_block_linear" ->
            swizzled_mip_size(d.width, d.height, d.depth, d.block_height,
                              d.bytes_per_pixel)
      [] o = "deswizzle_block_linear" ->
            deswizzled_mip_size(d.width, d.height, d.depth, d.bytes_per_pixel)
      [] o = "swizzle_surface" -> swizzled_surface_size(d)
      [] o = "deswizzle_surface" -> deswizzled_surface_size(d)

\* C5: the output of a successful call is exactly swizzled_mip_size /
\* deswizzled_mip_size / swizzled_surface_size / deswizzled_surface_size bytes
\* long for swizzle_block_linear / deswizzle_block_linear / swizzle_surface /
\* deswizzle_surface, from its allocation to its return, however long the
\* source is.
C5_OutputLength ==
    pc \in {"check", "mipmap", "gob", "inner_done", "layer_end", "done"} =>
        Len(destination) = OutputSize(op, desc)

\* swizzle_surface has returned the two aligned layers of a source longer
\* than required.
C5_Witness ==
    /\ pc = "done"
    /\ op = "swizzle_surface"
    /\ Len(source) > deswizzled_surface_size(desc)
    /\ desc.layer_count > 1
    /\ Len(destination) > Len(source)

\* C6: a call with a source longer than required succeeds, swizzle_inner reads
\* no byte of the source at or after the required length, and no such byte
\* (every one of them is 255, a value the first bytes never take) is in the
\* output.
C6_OversizedSource ==
    (pc \notin {"call", "check"} /\ Len(source) > RequiredSize(op, desc)) =>
        /\ ~Failed
        /\ ~tail_read
        /\ pc = "done" =>
               \A i \in 0..(Len(destination) - 1) : At(destination, i) # 255

\* deswizzle_block_linear has returned from a source longer than the swizzled
\* mip, whose last GOB is partial.
C6_Witness ==
    /\ pc = "done"
    /\ op = "deswizzle_block_linear"
    /\ Len(source) > RequiredSize(op, desc)
    /\ At(source, Len(source) - 1) = 255
    /\ desc.height = 17
    /\ desc.depth > 1

\* C7: for every mip and for every surface the swizzled size is at least the
\* deswizzled size.
C7_SwizzledSizeAtLeastDeswizzled ==
    pc = "done" => returned.swizzled >= returned.deswizzled

\* The sizes of a surface of two layers, three mips and 16 bytes per pixel
\* have been returned, and they differ.
C7_Witness ==
    /\ pc = "done"
    /\ op = "surface_size"
    /\ desc.layer_count > 1
    /\ desc.mipmap_count = 3
    /\ desc.bytes_per_pixel = 16
    /\ desc.depth > 1
    /\ returned.swizzled > returned.deswizzled
    /\ returned.deswizzled > 0

\* Mip k of the surface d as swizzle_inner gets it.
MipAt(d, k) ==
    LET mip_height == mip_dimension(d.height, k, d.block_dim.height)
        mip_depth == mip_dimension(d.depth, k, d.block_dim.depth)
    IN  [width |-> mip_dimension(d.width, k, d.block_dim.width),
         height |-> mip_height, depth |-> mip_depth,
         block_height |-> mip_block_height(mip_height, inner_block_height_mip0(d)),
         block_depth |-> mip_block_depth(mip_depth, block_depth(d.depth)),
         bytes_per_pixel |-> d.bytes_per_pixel]

\* The byte coordinate whose place in the swizzled layout of the mip m is the
\* offset u: the slice group, the row of blocks, the column of GOBs, the slice
\* and the GOB inside the block, and the byte inside the GOB.
CoordinateAt(m, u) ==
    LET w_gobs == width_in_gobs(m.width, m.bytes_per_pixel)
        rows == GOB_SIZE_IN_BYTES * m.block_height
        block == rows * m.block_depth
        slice == slice_size(m.block_height, m.block_depth, w_gobs, m.height)
        in_slice == u % slice
        in_row == in_slice % (block * w_gobs)
        in_block == in_row % block
        o == (in_block % rows) % GOB_SIZE_IN_BYTES
    IN  [x |-> (in_row \div block) * GOB_WIDTH_IN_BYTES
                   + (o \div 256) * 32 + ((o \div 32) % 2) * 16 + (o % 16),
         y |-> ((in_slice \div (block * w_gobs)) * m.block_height
                    + ((in_block % rows) \div GOB_SIZE_IN_BYTES)) * GOB_HEIGHT_IN_BYTES
                   + ((o \div 64) % 4) * 2 + ((o \div 16) % 2),
         z |-> (u \div slice) * m.block_depth + (in_block \div rows)]

\* u is the swizzled address of a byte of the mip m.
IsImageOffsetOf(m, u) ==
    LET c == CoordinateAt(m, u)
    IN  /\ u >= 0
        /\ c.x < m.width * m.bytes_per_pixel
        /\ c.y < m.height
        /\ c.z < m.depth
        /\ SwizzledAddressIn(m, c.x, c.y, c.z) = u

\* The swizzled size of one layer of the surface d, and the distance between
\* the starts of two layers.
LayerSize(d) == swizzled_mips_size(d, inner_block_height_mip0(d), d.mipmap_count)

LayerStride(d) ==
    IF d.layer_count > 1
    THEN align_layer_size(LayerSize(d), d.height, d.depth, inner_block_height_mip0(d), 1)
    ELSE LayerSize(d)

\* The mips of one layer of the swizzled output of the running call, each
\* with the offsets in the layer at which it starts and ends; the distance
\* between two layers; and the number of layers.
OutputMips ==
    IF op \in BlockLinearOps
    THEN <<[first |-> 0,
            last |-> swizzled_mip_size(desc.width, desc.height, desc.depth,
                                       desc.block_height, desc.bytes_per_pixel),
            m |-> BlockLinearMip]>>
    ELSE [k \in 1..desc.mipmap_count |->
             [first |-> swizzled_mips_size(desc, inner_block_height_mip0(desc), k - 1),
              last |-> swizzled_mips_size(desc, inner_block_height_mip0(desc), k),
              m |-> MipAt(desc, k - 1)]]

OutputStride ==
    IF op \in BlockLinearOps
    THEN swizzled_mip_size(desc.width, desc.height, desc.depth, desc.block_height,
                           desc.bytes_per_pixel)
    ELSE LayerStride(desc)

OutputLayers == IF op \in BlockLinearOps THEN 1 ELSE desc.layer_count

\* The offset t of a swizzled output made of `layers` layers `stride` apart,
\* each holding `mips`, is the swizzled address of an image byte of some mip of
\* some layer.
IsImageOffset(mips, stride, layers, t) ==
    /\ t \div stride < layers
    /\ \E k \in 1..Len(mips) :
          /\ mips[k].first <= t % stride
          /\ t % stride < mips[k].last
          /\ IsImageOffsetOf(mips[k].m, (t % stride) - mips[k].first)

\* C9: in the output of a swizzle every byte whose offset is not the swizzled
\* address of an image byte (padding to whole GOBs, blocks and aligned layers)
\* is 0.
C9_ZeroFilledPadding ==
    (pc = "done" /\ ~DESWIZZLE) =>
        LET mips == OutputMips
            stride == OutputStride
            layers == OutputLayers
        IN  \A t \in 0..(Len(destination) - 1) :
                At(destination, t) # 0 => IsImageOffset(mips, stride, layers, t)

\* A swizzled surface of two layers: the image bytes are nonzero, and there is
\* padding inside the mip and between the layers.
C9_Witness ==
    /\ pc = "done"
    /\ op = "swizzle_surface"
    /\ desc.layer_count > 1
    /\ LayerStride(desc) > LayerSize(desc)
    /\ At(destination, 0) # 0
    /\ IsImageOffset(OutputMips, OutputStride, OutputLayers, 0)
    /\ \E t \in 0..(LayerSize(desc) - 1) :
          ~IsImageOffset(OutputMips, OutputStride, OutputLayers, t)
    /\ ~IsImageOffset(OutputMips, OutputStride, OutputLayers, LayerSize(desc))

\* The offset on the swizzled side of the running surface call.
SwizzledOffset == IF DESWIZZLE THEN src_offset ELSE dst_offset

\* C8: in a surface of more than one layer, layer i begins at swizzled offset
\* i * align_layer_size(S, height, depth, bh_mip0, 1), S being the sum of
\* swizzled_mip_size over the mips of a layer, and swizzled_surface_size is
\* layer_count times that aligned size; with one layer nothing is aligned and
\* swizzled_surface_size is S.
C8_LayerAlignment ==
    op \in SurfaceOps =>
        LET S == LayerSize(desc)
            aligned == align_layer_size(S, desc.height, desc.depth,
                                        inner_block_height_mip0(desc), 1)
        IN  IF desc.layer_count > 1
            THEN /\ swizzled_surface_size(desc) = desc.layer_count * aligned
                 /\ (pc \in {"mipmap", "gob"} /\ mip = 0) =>
                        SwizzledOffset = layer * aligned
                 /\ pc = "done" => SwizzledOffset = desc.layer_count * aligned
            ELSE /\ swizzled_surface_size(desc) = S
                 /\ (pc \in {"mipmap", "gob"} /\ mip = 0) => SwizzledOffset = 0
                 /\ pc = "done" => SwizzledOffset = S

\* swizzle_surface is at the start of the second layer, after padding.
C8_Witness ==
    /\ op = "swizzle_surface"
    /\ pc = "mipmap"
    /\ mip = 0
    /\ layer = 1
    /\ desc.mipmap_count > 1
    /\ dst_offset > LayerSize(desc)

\* The block height of mip 0 is B: every mip runs with the block height
\* derived from B, the layers are aligned with B, and swizzled_surface_size is
\* computed with B.
BlockHeightMip0Is(B) ==
    LET S == swizzled_mips_size(desc, B, desc.mipmap_count)
        aligned == align_layer_size(S, desc.height, desc.depth, B, 1)
    IN  /\ pc \in {"gob", "inner_done"} =>
               mp.block_height = mip_block_height(mp.height, B)
        /\ (pc = "mipmap" /\ mip = 0 /\ desc.layer_count > 1) =>
               SwizzledOffset = layer * aligned
        /\ swizzled_surface_size(desc)
               = (IF desc.layer_count > 1 THEN aligned * desc.layer_count ELSE S)

InferredBlockHeight(d) ==
    block_height_mip0(div_round_up(d.height, d.block_dim.height))

\* C10 as stated: the caller's mip-0 block height is used whenever one is
\* supplied; else at depth 1 it is inferred from the height in blocks; else
\* it is 1.
C10_AsStated ==
    op \in SurfaceOps =>
        BlockHeightMip0Is(IF desc.block_height_mip0.has_value
                          THEN desc.block_height_mip0.value
                          ELSE IF desc.depth = 1 THEN InferredBlockHeight(desc)
                          ELSE 1)

\* C10: at depth 1 the mip-0 block height is the caller's value when one is
\* supplied and block_height_mip0(div_round_up(height, block_dim.height))
\* otherwise; at any other depth it is 1, whether or not the caller supplied a
\* value.  The drivers and swizzled_surface_size make the same choice.
C10_BlockHeightMip0 ==
    op \in SurfaceOps =>
        BlockHeightMip0Is(IF desc.depth = 1
                          THEN (IF desc.block_height_mip0.has_value
                                THEN desc.block_height_mip0.value
                                ELSE InferredBlockHeight(desc))
                          ELSE 1)

\* A mip of a surface two slices deep runs with block height 1 although the
\* caller supplied 32, which would give it block height 2.
C10_Witness ==
    /\ op \in SurfaceOps
    /\ pc = "gob"
    /\ desc.depth > 1
    /\ desc.block_height_mip0 = Some(32)
    /\ mp.block_height = 1
    /\ mip_block_height(mp.height, 32) = 2

\* The values obtained by repeatedly halving b.
Halvings(b) == {b \div p : p \in {1, 2, 4, 8, 16, 32}} \ {0}

\* C11: for every mip_height >= 1 and every bh_mip0 of the six block heights,
\* r = mip_block_height(mip_height, bh_mip0) is one of the six block heights
\* and at most bh_mip0; r is 1 whenever mip_height <= 8; and r is the largest
\* of the values got by repeatedly halving bh_mip0 with r = 1 or
\* mip_height > (r / 2) * 8.
C11_MipBlockHeight ==
    (pc = "done" /\ op = "mip_block_height") =>
        LET r == returned.block_height
            stops == {v \in Halvings(desc.block_height_mip0) :
                         v = 1 \/ desc.mip_height > (v \div 2) * 8}
        IN  /\ r \in {1, 2, 4, 8, 16, 32}
            /\ r <= desc.block_height_mip0
            /\ desc.mip_height <= 8 => r = 1
            /\ r \in stops
            /\ \A v \in stops : v <= r

\* mip_block_height has halved 32 twice for a mip 64 rows high.
C11_Witness ==
    /\ pc = "done"
    /\ op = "mip_block_height"
    /\ desc.block_height_mip0 = 32
    /\ desc.mip_height = 64
    /\ returned.block_height = 8

\* The ladder of block_height_mip0 over t = h + floor(h / 2).
BlockHeightLadder(h) ==
    LET t == h + (h \div 2)
    IN  CASE t >= 128 -> 16
          [] t < 128 /\ t >= 64 -> 8
          [] t < 64 /\ t >= 32 -> 4
          [] t < 32 /\ t >= 16 -> 2
          [] t < 16 -> 1

\* C12: block_height_mip0(h) follows the ladder 16 / 8 / 4 / 2 / 1 over
\* t = h + floor(h / 2) with the steps 128, 64, 32 and 16; it never returns
\* 32, it does not decrease when h grows, block_height_mip0(300) is 16 and
\* block_height_mip0(8) is 1.
C12_BlockHeightMip0 ==
    (pc = "done" /\ op = "block_height_mip0") =>
        /\ returned.block_height = BlockHeightLadder(desc.height)
        /\ returned.block_height # 32
        /\ \A h \in 0..desc.height : block_height_mip0(h) <= returned.block_height
        /\ desc.height = 300 => returned.block_height = 16
        /\ desc.height = 8 => returned.block_height = 1

\* block_height_mip0(300) has returned.
C12_Witness ==
    /\ pc = "done"
    /\ op = "block_height_mip0"
    /\ desc.height = 300
    /\ returned.block_height = 16

\* The ladder of block_depth over d = D + floor(D / 2).
BlockDepthLadder(D) ==
    LET d == D + (D \div 2)
    IN  CASE d >= 16 -> 16
          [] d < 16 /\ d >= 8 -> 8
          [] d < 8 /\ d >= 4 -> 4
          [] d < 4 /\ d >= 2 -> 2
          [] d < 2 -> 1

\* C13: block_depth(D) follows the ladder 16 / 8 / 4 / 2 / 1 over
\* d = D + floor(D / 2) with the steps 16, 8, 4 and 2, so block_depth(1) = 1
\* and block_depth(16) = 16; for every mip depth m and every D,
\* mip_block_depth(m, block_depth(D)) is one of 1, 2, 4, 8, 16 and at most
\* block_depth(D); and with that block depth gob_address_z's z & (bd - 1) is
\* z mod bd: its result is (z / bd) * slice_size + (z mod bd) * 512 * bh.
C13_BlockDepth ==
    (pc = "done" /\ op = "block_depth") =>
        /\ returned.block_depth = BlockDepthLadder(desc.depth)
        /\ desc.depth = 1 => returned.block_depth = 1
        /\ desc.depth = 16 => returned.block_depth = 16
        /\ returned.mip_block_depth \in {1, 2, 4, 8, 16}
        /\ returned.mip_block_depth <= returned.block_depth
        /\ returned.offset_z
               = (desc.z \div returned.mip_block_depth) * returned.slice_size
                     + (desc.z % returned.mip_block_depth) * 512 * 1

\* The block depth 16 of a surface 16 deep has been halved to 8 for a mip 5
\* deep, and slice 3 of that mip has been addressed.
C13_Witness ==
    /\ pc = "done"
    /\ op = "block_depth"
    /\ desc.depth = 16
    /\ desc.mip_depth = 5
    /\ desc.z = 3
    /\ returned.block_depth = 16
    /\ returned.mip_block_depth = 8
    /\ returned.offset_z = 3 * 512

\* Bitwise or of two naturals, and x << n.
RECURSIVE BitOr(_, _)
BitOr(a, b) ==
    IF a = 0 THEN b
    ELSE IF b = 0 THEN a
    ELSE (IF a % 2 = 1 \/ b % 2 = 1 THEN 1 ELSE 0) + 2 * BitOr(a \div 2, b \div 2)

RECURSIVE ShiftLeft(_, _)
ShiftLeft(x, n) == IF n = 0 THEN x ELSE ShiftLeft(2 * x, n - 1)

\* ((x & 0x20) << 3) | ((y & 0x6) << 5) | ((x & 0x10) << 1) | ((y & 1) << 4)
\*     | (x & 0xF)
GobOffsetBitwise(x, y) ==
    BitOr(ShiftLeft(BitAnd(x, 32), 3),
          BitOr(ShiftLeft(BitAnd(y, 6), 5),
                BitOr(ShiftLeft(BitAnd(x, 16), 1),
                      BitOr(ShiftLeft(BitAnd(y, 1), 4), BitAnd(x, 15)))))

\* ROW[y] + SUB[x / 16] + (x mod 16)
GobOffsetByTables(x, y) ==
    <<0, 16, 64, 80, 128, 144, 192, 208>>[y + 1] + <<0, 32, 256, 288>>[(x \div 16) + 1]
        + (x % 16)

\* C16: gob_offset maps the pairs (x, y) with 0 <= x < 64 and 0 <= y < 8 one
\* to one onto 0..511: the offset returned for (x, y) lies in 0..511 and is
\* returned for no other pair, and every offset (here the one numbered
\* y * 64 + x) is returned for some pair; the value equals the bitwise form
\* and equals ROW[y] + SUB[x / 16] + (x mod 16).
C16_GobOffset ==
    (pc = "done" /\ op = "gob_offset") =>
        /\ returned.offset \in 0..511
        /\ \A x \in 0..63, y \in 0..7 :
              gob_offset(x, y) = returned.offset => (x = desc.x /\ y = desc.y)
        /\ \E x \in 0..63, y \in 0..7 : gob_offset(x, y) = desc.y * 64 + desc.x
        /\ returned.offset = GobOffsetBitwise(desc.x, desc.y)
        /\ returned.offset = GobOffsetByTables(desc.x, desc.y)

\* gob_offset(37, 5) has returned 256 + 128 + 16 + 5.
C16_Witness ==
    /\ pc = "done"
    /\ op = "gob_offset"
    /\ desc.x = 37
    /\ desc.y = 5
    /\ returned.offset = 405

\* ceil(a / b) and a rounded up to a multiple of b.
CeilDiv(a, b) == (a \div b) + (IF a % b = 0 THEN 0 ELSE 1)

RoundUpTo(a, b) == CeilDiv(a, b) * b

\* The arguments of the call are (mw, mh, md, bh, bpp).
MipSizeCallOf(mw, mh, md, bh, bpp) ==
    desc = [width |-> mw, height |-> mh, depth |-> md, block_height |-> bh,
            bytes_per_pixel |-> bpp]

\* C15: swizzled_mip_size(mw, mh, md, bh, bpp) is
\* ceil(mw*bpp/64) * (ceil(mh/(bh*8)) * bh) * round_up(md, block_depth(md)) * 512,
\* a positive multiple of 512, and deswizzled_mip_size(mw, mh, md, bpp) is
\* mw*mh*md*bpp; the sizes of the documented examples are 262144, 131072 and
\* 65536 swizzled and 262144 and 65536 deswizzled.
C15_MipSizes ==
    (pc = "done" /\ op = "mip_size") =>
        /\ returned.swizzled
               = CeilDiv(desc.width * desc.bytes_per_pixel, 64)
                     * (CeilDiv(desc.height, desc.block_height * 8) * desc.block_height)
                     * RoundUpTo(desc.depth, BlockDepthLadder(desc.depth))
                     * 512
        /\ returned.swizzled > 0
        /\ returned.swizzled % 512 = 0
        /\ returned.deswizzled
               = desc.width * desc.height * desc.depth * desc.bytes_per_pixel
        /\ MipSizeCallOf(256, 256, 1, 16, 4) => returned.swizzled = 262144
        /\ MipSizeCallOf(64, 64, 1, 16, 16) => returned.swizzled = 131072
        /\ MipSizeCallOf(64, 64, 1, 4, 16) => returned.swizzled = 65536
        /\ (desc.width = 256 /\ desc.height = 256 /\ desc.depth = 1
                /\ desc.bytes_per_pixel = 4) => returned.deswizzled = 262144
        /\ (desc.width = 64 /\ desc.height = 64 /\ desc.depth = 1
                /\ desc.bytes_per_pixel = 16) => returned.deswizzled = 65536

\* The sizes of the 64 x 64 mip of 16 bytes per pixel in blocks 16 GOBs high
\* have been returned.
C15_Witness ==
    /\ pc = "done"
    /\ op = "mip_size"
    /\ MipSizeCallOf(64, 64, 1, 16, 16)
    /\ returned.swizzled = 131072
    /\ returned.deswizzled = 65536

\* The GOB at (x0, y0, z0) as swizzle_deswizzle_gob would process it.
PerByteGob == [ThisGob EXCEPT !.complete = FALSE, !.table = PerByteWrites]

\* The (linear offset, swizzled offset) pairs of the bytes a GOB moves.
PairsOf(g) ==
    {<<LinearIndex(g, n), SwizzledIndex(g, n)>> : n \in {k \in GobWrites : Moves(g, k)}}

\* C14: whenever swizzle_inner takes the branch to swizzle_complete_gob or
\* deswizzle_complete_gob, the destination that branch leaves is byte for
\* byte the one swizzle_deswizzle_gob would leave for the same GOB, so the
\* output of the mip is the one of the per-byte path alone; the row copies
\* pair linear offset linear_offset + r*W*bpp + c with swizzled offset
\* gob_address + gob_offset(c, r) for every row r in 0..7 and column c in
\* 0..63, and move nothing else.
C14_FastSlowEquivalence ==
    (pc = "gob" /\ is_complete_gob) =>
        LET fast == ThisGob
            slow == PerByteGob
            moves_fast == GobMoves(fast)
            moves_slow == GobMoves(slow)
        IN  /\ ~OutOfBounds(moves_fast)
            /\ ~OutOfBounds(moves_slow)
            /\ GobResult(fast, moves_fast) = GobResult(slow, moves_slow)
            /\ PairsOf(fast)
                   = {<<complete_linear_offset + r * mp.width * mp.bytes_per_pixel + c,
                        gob_address + gob_offset(c, r)>> : r \in 0..7, c \in 0..63}

\* A deswizzle is about to copy a whole GOB of the second slice by rows,
\* after other GOBs, in a mip two GOBs wide and three GOBs high.
C14_Witness ==
    /\ pc = "gob"
    /\ is_complete_gob
    /\ DESWIZZLE
    /\ gobs_done > 0
    /\ z0 = 1
    /\ y0 = 8
    /\ mp.width * mp.bytes_per_pixel = 128
    /\ mp.height = 17

\* The number of GOBs swizzle_inner's loops step through for the mip m.
GobsIn(m) ==
    m.depth * CeilDiv(m.height, 8) * CeilDiv(m.width * m.bytes_per_pixel, 64)

\* The GOBs of the first k mips of a layer of the surface d.
RECURSIVE GobsInMips(_, _)
GobsInMips(d, k) ==
    IF k = 0 THEN 0 ELSE GobsInMips(d, k - 1) + GobsIn(MipAt(d, k - 1))

\* The GOBs processed by the running call before the running mip.
GobsBefore ==
    IF op \in BlockLinearOps THEN 0
    ELSE layer * GobsInMips(desc, desc.mipmap_count) + GobsInMips(desc, mip)

\* The place of the GOB at (x0, y0, z0) among the GOBs of the running mip,
\* counted slice by slice, row by row, column by column.
GobRank ==
    (z0 * CeilDiv(mp.height, 8) + (y0 \div 8))
            * CeilDiv(mp.width * mp.bytes_per_pixel, 64)
        + (x0 \div 64)

\* C17: within one mip transform the loops visit each GOB once (the GOB at
\* hand is a GOB of the mip and the number of GOBs processed before it is its
\* place among them; when the loops end the number is the number of GOBs of
\* the mip); no two byte coordinates of the mip share a swizzled offset (the
\* coordinate is recovered from the offset); and no byte of the destination is
\* assigned twice: every byte a GOB moves is nonzero and is written to a byte
\* that still holds the 0 of the allocation, no two bytes of a GOB are written
\* to the same index, and when a deswizzle has finished a mip every byte of
\* its linear image has been assigned.
C17_WriteOnce ==
    /\ pc = "gob" =>
          LET m == GobMoves(ThisGob)
              moving == {n \in GobWrites : At(m, n).moves}
          IN  /\ x0 % 64 = 0 /\ x0 < mp.width * mp.bytes_per_pixel
              /\ y0 % 8 = 0 /\ y0 < mp.height
              /\ z0 < mp.depth
              /\ gobs_done = GobsBefore + GobRank
              /\ \A n \in moving :
                    /\ At(source, At(m, n).read) # 0
                    /\ At(destination, At(m, n).write) = 0
              /\ Cardinality({At(m, n).write : n \in moving}) = Cardinality(moving)
    /\ pc = "inner_done" =>
          /\ gobs_done = GobsBefore + GobsIn(mp)
          /\ \A z \in 0..(mp.depth - 1), y \in 0..(mp.height - 1),
                x \in 0..(mp.width * mp.bytes_per_pixel - 1) :
                CoordinateAt(mp, SwizzledAddress(x, y, z)) = [x |-> x, y |-> y, z |-> z]
          /\ DESWIZZLE =>
                \A i \in 0..(deswizzled_mip_size(mp.width, mp.height, mp.depth,
                                                 mp.bytes_per_pixel) - 1) :
                    At(destination, dst_offset + i) # 0

\* A swizzle of a surface has processed the second mip of the second layer:
\* four GOBs for each first mip, two of them whole, and one for each second.
C17_Witness ==
    /\ pc = "inner_done"
    /\ op = "swizzle_surface"
    /\ layer = 1
    /\ mip = 1
    /\ desc.width * desc.bytes_per_pixel = 68
    /\ desc.height = 16
    /\ desc.depth = 1
    /\ desc.block_dim = block_dim_uncompressed
    /\ gobs_done = 10

\* C18: the branch to the row copies is taken for the GOB at (x0, y0) exactly
\* when x0 + 64 < W*bpp and y0 + 8 < H, so a GOB whose right edge is W*bpp or
\* whose bottom edge is H is processed byte by byte; when that branch is
\* taken all 8 x 64 bytes are moved and their linear offsets lie below
\* W*H*D*bpp in rows y0..y0+7 and columns x0..x0+63 of slice z0; and on either
\* path every byte moved has its linear offset inside the image, in the rows
\* and columns of the GOB, and its swizzled offset at the swizzled address of
\* a byte of the image.
C18_PathDispatch ==
    pc = "gob" =>
        LET g == ThisGob
            row == mp.width * mp.bytes_per_pixel
            plane == row * mp.height
            image == plane * mp.depth
        IN  /\ g.complete <=> (x0 + 64 < row /\ y0 + 8 < mp.height)
            /\ (x0 + 64 = row \/ y0 + 8 = mp.height) => g.table = PerByteWrites
            /\ g.complete => \A n \in GobWrites : Moves(g, n)
            /\ \A n \in GobWrites :
                  Moves(g, n) =>
                      LET l == LinearIndex(g, n)
                      IN  /\ 0 <= l /\ l < image
                          /\ l \div plane = z0
                          /\ (l % plane) \div row \in y0..(y0 + 7)
                          /\ l % row \in x0..(x0 + 63)
                          /\ IsImageOffsetOf(mp, SwizzledIndex(g, n))

\* Swizzling the last GOB of a mip exactly two GOBs wide and two GOBs high:
\* both edges of the GOB are edges of the image, and it is moved byte by byte.
C18_Witness ==
    /\ pc = "gob"
    /\ ~DESWIZZLE
    /\ gobs_done > 0
    /\ x0 + 64 = mp.width * mp.bytes_per_pixel
    /\ y0 + 8 = mp.height
    /\ x0 = 64
    /\ y0 = 8
    /\ ~is_complete_gob

\* The swizzled size of the running mip as the sizing function computes it.
SwizzledMipSize ==
    swizzled_mip_size(mp.width, mp.height, mp.depth, mp.block_height, mp.bytes_per_pixel)

\* The length of the swizzled buffer of the running call.
SwizzledLength == IF DESWIZZLE THEN Len(source) ELSE Len(destination)

\* C19: every swizzled offset swizzle_inner accesses for a byte of the image
\* is below swizzled_mip_size(mw, mh, md, bh, bpp) of the running mip, for the
\* single-mip entry points and for every mip of every layer of a surface,
\* where the transform runs with mip_block_depth(md, block_depth(depth)) and
\* the size is computed with block_depth(md); so an access stays inside the
\* mip's part of the swizzled buffer, below the start of the next mip or
\* layer and below the end of the buffer, whose size is the one the sizing
\* function gives.
C19_SwizzledBounds ==
    pc = "gob" =>
        LET g == ThisGob
            size == SwizzledMipSize
            first == IF op \in BlockLinearOps THEN 0 ELSE SwizzledOffset
        IN  /\ first + size <= SwizzledLength
            /\ first + size <= (IF op \in BlockLinearOps THEN size
                                ELSE swizzled_surface_size(desc))
            /\ op \in SurfaceOps =>
                  first = layer * LayerStride(desc)
                              + swizzled_mips_size(desc, inner_block_height_mip0(desc), mip)
            /\ \A n \in GobWrites :
                  Moves(g, n) =>
                      /\ 0 <= SwizzledIndex(g, n)
                      /\ SwizzledIndex(g, n) < size

\* A surface call is moving the last slice of a mip 5 slices deep with the
\* block depth 8, where block_depth(5) is 4.
C19_Witness ==
    /\ pc = "gob"
    /\ op \in SurfaceOps
    /\ mip = 1
    /\ mp.depth = 5
    /\ z0 = 4
    /\ mp.block_depth = 8
    /\ block_depth(mp.depth) = 4
    /\ gob_address = 4 * 512
    /\ SwizzledMipSize = 8 * 512

====
